---- MODULE Spec2Model ----
(***************************************************************************)
(* The speech output pipeline of PAN (src/pan_speech.py): the SpeakManager *)
(* queue and worker thread, stop(), the text chunker _chunk_text and the   *)
(* backend fallback chain _speak_chunk.                                     *)
(*                                                                         *)
(* Strings.  A text is modelled by its structure, not by its characters:   *)
(* a string is [lead, atoms], lead the number of leading spaces and atoms  *)
(* the sequence of its words; an atom [w, len, p, gap] is the word with    *)
(* identity w, len characters long (punctuation included), whose last      *)
(* character is sentence punctuation (p = "term": . ! ?), secondary        *)
(* punctuation (p = "sec": , ; :) or neither (p = "none"), followed by gap *)
(* spaces.  Len, Concat, Strip and SplitAfter compute on this structure    *)
(* what len(), +, str.strip() and re.split() compute on the characters.    *)
(***************************************************************************)
EXTENDS Integers, Sequences, FiniteSets, TLC

VARIABLES
    \* the process environment, read once at import (lines 44-54)
    platform,               \* platform.system(): which of is_windows, is_linux, is_macos holds
    has_sapi,               \* win32com could be imported
    voice_volume,           \* pan_config.DEFAULT_VOICE_VOLUME as read from the environment,
                            \* in tenths
    \* SpeakManager's fields
    engine,                 \* self.engine: "real" (a pyttsx3 engine) or "dummy" (DummyEngine)
    queue,                  \* self.queue: the requests waiting, oldest first, each
                            \* [id, kind, text]
    unfinished_tasks,       \* the queue's count of puts not yet matched by task_done
    lock,                   \* self.lock: "free", or "worker" while the worker is inside with self.lock
    speech_count,           \* self.speech_count
    speaking_event,         \* self.speaking_event.is_set()
    active_chunks,          \* the _speak_chunk calls in progress
    exit_requested,         \* self.exit_requested
    last_restart_time,      \* self.last_restart_time
    tts_attempt_count,      \* self.tts_attempt_count
    last_tts_attempt_time,  \* self.last_tts_attempt_time
    now,                    \* time.time(), in seconds since construction
    \* the worker thread: its position in _worker and its locals
    w_pc, w_req, w_chunks, w_idx, w_exc,
    \* the threads that call stop(): the position of each in stop()
    s_pc,
    \* how the last direct _speak_chunk call went: [ret, out, tiers, inits, peak,
    \* loop_error, sleeps, init];
    \* how many direct calls in a row have ended without a backend speaking,
    \* each less than ATTEMPT_RESET_SECONDS after the attempt before it
    sc_last, fail_streak,
    \* history: the number of speak() calls so far (a request's id is its
    \* rank among them); how many chunks of the request in hand were passed
    \* to _speak_chunk with exit_requested already set; the ids of the
    \* requests that were in the queue when exit_requested was set
    n_requests, late_chunks, pending_at_stop,
    \* history: the requests taken off the queue so far, by get or get_nowait;
    \* the calls of _init_engine so far; the calls of set_voice_by_mood made
    \* for the request in the worker's hands
    n_removed, engine_inits, voice_sets,
    \* history: what the worker did with the engine for the request in its
    \* hands: [busy, stopped], what engine.isBusy() reported and whether
    \* engine.stop() was called at lines 410-411, kept until the voice is set;
    \* engine_tried, whether the last _speak_chunk call that called
    \* _init_engine had tried the engine it replaced
    w_engine,
    \* history: the time of the last call of _init_engine
    last_init_time,
    \* the chunker run on its own: _chunk_text(ct_text) with limit ct_size
    ct_text, ct_size, ct_out, ct_pc,
    \* the Mood Provider's current mood, pan_emotions.mood; how the last direct
    \* set_voice_by_mood call went: [mood, ambient, ret, props]
    ambient_mood, sv_last

env_vars == <<platform, has_sapi, voice_volume>>
tts_vars == <<engine, last_restart_time, tts_attempt_count, last_tts_attempt_time, sc_last,
             fail_streak, engine_inits, last_init_time>>
mgr_vars == <<queue, unfinished_tasks, lock, speech_count, speaking_event, exit_requested,
             active_chunks>>
w_vars == <<w_pc, w_req, w_chunks, w_idx, w_exc>>
hist_vars == <<n_requests, late_chunks, pending_at_stop, n_removed, voice_sets, w_engine>>
ct_vars == <<ct_text, ct_size, ct_out, ct_pc>>
voice_vars == <<ambient_mood, sv_last>>

\* ------------------------------------------------------------------ bounds
\* Most words of a text the chunker is run on.
MaxWords == 3
\* Most speak() calls in a run, and the threads that call stop().
MaxRequests == 3
NumStoppers == 2
MaxTime == 12
\* Most calls of _init_engine followed in a run, the constructor's included.
MaxInits == 4

\* Word lengths the texts are built from: below MAX_CHUNK_LENGTH, exactly it,
\* between it and the macOS limit, and above the macOS limit; 40 + 1 + 109 is
\* exactly MAX_CHUNK_LENGTH and 150 + 1 + 149 exactly the macOS limit.
WordLens == {40, 109, 149, 150, 200, 310}

\* ------------------------------------------------------------------ program constants
MAX_CHUNK_LENGTH == 150
MACOS_CHUNK_LENGTH == 300
\* _speak_chunk: the counter is reset after this many seconds without an
\* attempt; more failures in a row than this go straight to the fallback; the
\* engine is reinitialized at most once in this many seconds.
ATTEMPT_RESET_SECONDS == 10
MAX_TTS_ATTEMPTS == 3
RESTART_COOLDOWN_SECONDS == 5

Platforms == {"windows", "linux", "darwin", "other"}

\* ------------------------------------------------------------------ strings
EmptyStr == [lead |-> 0, atoms |-> <<>>]

RECURSIVE AtomsLen(_)
AtomsLen(as) ==
    IF as = <<>> THEN 0 ELSE Head(as).len + Head(as).gap + AtomsLen(Tail(as))

\* len(s)
StrLen(s) == s.lead + AtomsLen(s.atoms)

\* The last atom of a non-empty atom sequence followed by g more spaces.
PadLast(as, g) ==
    [as EXCEPT ![Len(as)] = [@ EXCEPT !.gap = @ + g]]

\* s + t
Concat(s, t) ==
    IF s.atoms = <<>>
    THEN [lead |-> s.lead + t.lead, atoms |-> t.atoms]
    ELSE [lead |-> s.lead, atoms |-> PadLast(s.atoms, t.lead) \o t.atoms]

\* s + " "
AddSpace(s) == Concat(s, [lead |-> 1, atoms |-> <<>>])

\* s.strip()
Strip(s) ==
    IF s.atoms = <<>>
    THEN EmptyStr
    ELSE [lead |-> 0,
          atoms |-> [s.atoms EXCEPT ![Len(s.atoms)] = [@ EXCEPT !.gap = 0]]]

\* The words of a string, in order.
Words(s) == [i \in 1..Len(s.atoms) |-> s.atoms[i].w]

\* re.split(r"(?<=[P]) +", s): s is cut at every run of spaces that follows a
\* word ending in punctuation of class cls; the run of spaces is consumed.  A
\* text that ends in such a run yields a last, empty piece.
RECURSIVE SplitFrom(_, _, _, _)
SplitFrom(as, i, cur, cls) ==
    IF i > Len(as)
    THEN <<cur>>
    ELSE IF as[i].p = cls /\ as[i].gap >= 1
         THEN <<[cur EXCEPT !.atoms = Append(@, [as[i] EXCEPT !.gap = 0])]>>
              \o SplitFrom(as, i + 1, EmptyStr, cls)
         ELSE SplitFrom(as, i + 1, [cur EXCEPT !.atoms = Append(@, as[i])], cls)

SplitAfter(s, cls) ==
    SplitFrom(s.atoms, 1, [lead |-> s.lead, atoms |-> <<>>], cls)

\* ------------------------------------------------------------------ _chunk_text
\* chunk_size = 300 if is_macos else MAX_CHUNK_LENGTH
ChunkSize(plat) == IF plat = "darwin" THEN MACOS_CHUNK_LENGTH ELSE MAX_CHUNK_LENGTH

\* lines 197 and 210: the piece is added to what is held when the two
\* lengths together do not exceed the limit.
FitsAlways(held, piece, chunk_size) == TRUE
FitsNever(held, piece, chunk_size) == FALSE
Fits(held, piece, chunk_size) == StrLen(held) + StrLen(piece) <= chunk_size

\* line 191: the fast path for a text no longer than the limit
NoFastPath(text, chunk_size) == FALSE
FastPath(text, chunk_size) == StrLen(text) <= chunk_size

\* The inner loop over the parts of a sentence that is itself too long.
\* Returns <<chunks, subcurrent>>.
RECURSIVE SubLoop(_, _, _, _, _)
SubLoop(parts, j, chunks, subcurrent, chunk_size) ==
    IF j > Len(parts)
    THEN <<chunks, subcurrent>>
    ELSE IF Fits(subcurrent, parts[j], chunk_size)
         THEN SubLoop(parts, j + 1, chunks,
                      AddSpace(Concat(subcurrent, parts[j])), chunk_size)
         ELSE SubLoop(parts, j + 1,
                      IF StrLen(subcurrent) > 0
                      THEN Append(chunks, Strip(subcurrent)) ELSE chunks,
                      AddSpace(parts[j]), chunk_size)

\* A sentence longer than chunk_size: split on secondary punctuation and
\* packed greedily; the rest is flushed at the end.
LongSentence(sentence, chunks, chunk_size) ==
    LET r == SubLoop(SplitAfter(sentence, "sec"), 1, chunks, EmptyStr, chunk_size)
    IN  IF StrLen(r[2]) > 0 THEN Append(r[1], Strip(r[2])) ELSE r[1]

\* What `current` is after a sentence that did not fit was handled: the code
\* assigns it only in the branch of a sentence that fits a chunk of its own,
\* so after a too-long sentence it still holds the text already flushed.
CurrentAfterOverflow(sentence, current, chunk_size) ==
    IF StrLen(sentence) > chunk_size THEN current ELSE AddSpace(sentence)

\* The loop over the sentences.  Returns <<chunks, current>>.
RECURSIVE SentenceLoop(_, _, _, _, _)
SentenceLoop(sentences, i, chunks, current, chunk_size) ==
    IF i > Len(sentences)
    THEN <<chunks, current>>
    ELSE LET sentence == sentences[i] IN
         IF Fits(current, sentence, chunk_size)
         THEN SentenceLoop(sentences, i + 1, chunks,
                           AddSpace(Concat(current, sentence)), chunk_size)
         ELSE LET flushed == IF StrLen(current) > 0
                             THEN Append(chunks, Strip(current)) ELSE chunks
                  after == IF StrLen(sentence) > chunk_size
                           THEN LongSentence(sentence, flushed, chunk_size)
                           ELSE flushed
              IN  SentenceLoop(sentences, i + 1, after,
                               CurrentAfterOverflow(sentence, current, chunk_size),
                               chunk_size)

ChunkText(text, chunk_size) ==
    LET sentences == SplitAfter(text, "term") IN
    IF FastPath(text, chunk_size)
    THEN <<text>>
    ELSE LET r == SentenceLoop(sentences, 1, <<>>, EmptyStr, chunk_size)
         IN  IF StrLen(r[2]) > 0 THEN Append(r[1], Strip(r[2])) ELSE r[1]

\* The words of a list of chunks joined by single spaces.
RECURSIVE JoinedWords(_)
JoinedWords(chunks) ==
    IF chunks = <<>> THEN <<>> ELSE Words(Head(chunks)) \o JoinedWords(Tail(chunks))

\* ------------------------------------------------------------------ _speak_chunk
\* What the backends do during one _speak_chunk call: the environment's choice.
\*   sapi   sapi_engine.Speak(chunk): "ok" or the class of the exception raised
\*   say    engine.say(chunk)
\*   run    engine.runAndWait(): "run_loop" is the RuntimeError whose message
\*          holds "run loop already started"
\*   sys1   the external command (say, espeak) the first time it is run, sys2
\*          the second time
\*   init   pyttsx3.init() in _init_engine: "caught" is ImportError, RuntimeError
\*          or ValueError, "other" any other exception
\*   retry  the second attempt on the new engine: which call raises, if any
SapiOutcomes == {"ok", "AttributeError", "RuntimeError", "IOError", "Exception"}
SayOutcomes == {"ok", "Exception"}
RunOutcomes == {"ok", "run_loop", "RuntimeError", "Exception"}
CommandOutcomes == {"ok", "fail"}
InitOutcomes == {"ok", "caught", "other"}
RetryOutcomes == {"ok", "setProperty", "say", "runAndWait"}

NoFault ==
    [sapi |-> "ok", say |-> "ok", run |-> "ok", sys1 |-> "ok", sys2 |-> "ok",
     init |-> "ok", retry |-> "ok"]

\* _try_system_command_tts(text): True when the platform has a command and
\* the command succeeds; every exception is caught and gives False.
TrySystemCommandTts(plat, outcome) ==
    /\ plat \in {"darwin", "linux"}
    /\ outcome = "ok"

\* The exception classes `except (AttributeError, RuntimeError)` catches
\* around sapi_engine.Speak.
SapiCaught == {"AttributeError", "RuntimeError"}

\* Lines 288-290: the counter is reset when the last attempt is old.
CountAfterTimeReset(count, last_attempt, t) ==
    IF t - last_attempt > ATTEMPT_RESET_SECONDS THEN 0 ELSE count

\* Lines 348-355: reinitialize only when the last restart is old.
ShouldReinit(last_restart, t) == t - last_restart > RESTART_COOLDOWN_SECONDS

\* The engine _init_engine leaves in self.engine: a new pyttsx3 engine, the
\* dummy engine after a caught exception, the old handle when the exception
\* escapes _init_engine.
\* (an _init_engine without _create_dummy_engine)
EngineKeptAfterInit(old, outcome) == old
EngineAfterInit(old, outcome) ==
    CASE outcome = "ok" -> "real"
      [] outcome = "caught" -> "dummy"
      [] OTHER -> old

\* Lines 376-381: the external command, or the console print.
FinalTier(st, plat, f, c, tiers, eng, lr, inits, second) ==
    LET cmd == TrySystemCommandTts(plat, IF second THEN f.sys2 ELSE f.sys1) IN
    [count |-> IF cmd THEN 0 ELSE c, engine |-> eng, last_restart |-> lr,
     ret |-> "return", out |-> IF cmd THEN "system" ELSE "console",
     tiers |-> tiers \o (IF cmd THEN <<"system">> ELSE <<"system", "console">>),
     inits |-> inits, peak |-> c]

\* Lines 346-374: the rate-limited reinitialization and the second attempt.
ReinitTier(st, plat, f, c, tiers, t, second) ==
    IF ~ShouldReinit(st.last_restart, t)
    THEN FinalTier(st, plat, f, c, tiers, st.engine, st.last_restart, 0, second)
    ELSE IF f.init = "other"
         THEN \* _init_engine raised: last_restart_time is not assigned
              FinalTier(st, plat, f, c, tiers \o <<"init">>, st.engine,
                        st.last_restart, 1, second)
         ELSE LET eng == EngineAfterInit(st.engine, f.init) IN
              IF eng = "dummy" \/ f.retry = "ok"
              THEN [count |-> 0, engine |-> eng, last_restart |-> t,
                    ret |-> "return",
                    out |-> IF eng = "dummy" THEN "dummy" ELSE "engine",
                    tiers |-> tiers \o <<"init", "engine">>, inits |-> 1, peak |-> c]
              ELSE FinalTier(st, plat, f, c, tiers \o <<"init", "engine">>, eng, t,
                             1, second)

\* Lines 319-344: the attempt on the current engine.
EngineTier(st, plat, f, c, tiers, t) ==
    LET tried == tiers \o <<"engine">> IN
    IF st.engine = "dummy"
    THEN \* DummyEngine.say prints the text, runAndWait does nothing
         [count |-> 0, engine |-> st.engine, last_restart |-> st.last_restart,
          ret |-> "return", out |-> "dummy", tiers |-> tried, inits |-> 0, peak |-> c]
    ELSE IF f.say # "ok"
    THEN ReinitTier(st, plat, f, c, tried, t, FALSE)
    ELSE IF f.run = "ok"
    THEN [count |-> 0, engine |-> st.engine, last_restart |-> st.last_restart,
          ret |-> "return", out |-> "engine", tiers |-> tried, inits |-> 0, peak |-> c]
    ELSE IF f.run = "run_loop"
    THEN IF TrySystemCommandTts(plat, f.sys1)
         THEN [count |-> 0, engine |-> st.engine, last_restart |-> st.last_restart,
               ret |-> "return", out |-> "system", tiers |-> tried \o <<"system">>,
               inits |-> 0, peak |-> c]
         ELSE ReinitTier(st, plat, f, c, tried \o <<"system">>, t, TRUE)
    ELSE ReinitTier(st, plat, f, c, tried, t, FALSE)

\* line 309: if is_windows and self.sapi_engine
\* (a _speak_chunk that never used SAPI)
SapiNeverUsed(plat, sapi) == FALSE
UsesSapi(plat, sapi) == plat = "windows" /\ sapi

\* Lines 308-317: Windows SAPI, when there is one.
SapiTier(st, plat, sapi, f, c, t) ==
    IF UsesSapi(plat, sapi)
    THEN IF f.sapi = "ok"
         THEN [count |-> 0, engine |-> st.engine, last_restart |-> st.last_restart,
               ret |-> "return", out |-> "sapi", tiers |-> <<"sapi">>, inits |-> 0,
               peak |-> c]
         ELSE IF f.sapi \in SapiCaught
         THEN EngineTier(st, plat, f, c, <<"sapi">>, t)
         ELSE \* no except clause matches: the exception leaves _speak_chunk
              [count |-> c, engine |-> st.engine, last_restart |-> st.last_restart,
               ret |-> f.sapi, out |-> "none", tiers |-> <<"sapi">>, inits |-> 0,
               peak |-> c]
    ELSE EngineTier(st, plat, f, c, <<>>, t)

\* _speak_chunk(chunk, mood) at time t, from the fields st = [count, engine,
\* last_attempt, last_restart], with the backends behaving as f says.  The
\* result: the fields after the call (last_tts_attempt_time is t), ret
\* ("return", or the class of the exception that leaves the call), out (the
\* tier that emitted the chunk), tiers (the tiers tried, in order), inits (the
\* calls of _init_engine) and peak (the highest value of the counter).
\* (a _speak_chunk without the test of line 297)
SpeakChunkNoThreshold(st, plat, sapi, f, t) ==
    SapiTier(st, plat, sapi, f, CountAfterTimeReset(st.count, st.last_attempt, t) + 1, t)
SpeakChunk(st, plat, sapi, f, t) ==
    LET c == CountAfterTimeReset(st.count, st.last_attempt, t) + 1 IN
    IF c > MAX_TTS_ATTEMPTS
    THEN LET cmd == TrySystemCommandTts(plat, f.sys1) IN
         [count |-> 0, engine |-> st.engine, last_restart |-> st.last_restart,
          ret |-> "return", out |-> IF cmd THEN "system" ELSE "console",
          tiers |-> IF cmd THEN <<"system">> ELSE <<"system", "console">>,
          inits |-> 0, peak |-> c]
    ELSE SapiTier(st, plat, sapi, f, c, t)

\* The faults that can make a difference in the state st: a backend that is
\* not there cannot fail.
Faults(st, plat, sapi, t) ==
    { f \in [sapi : IF plat = "windows" /\ sapi THEN SapiOutcomes ELSE {"ok"},
             say : IF st.engine = "real" THEN SayOutcomes ELSE {"ok"},
             run : IF st.engine = "real" THEN RunOutcomes ELSE {"ok"},
             sys1 : IF plat \in {"darwin", "linux"} THEN CommandOutcomes ELSE {"fail"},
             sys2 : IF plat \in {"darwin", "linux"} THEN CommandOutcomes ELSE {"fail"},
             init : IF ShouldReinit(st.last_restart, t) THEN InitOutcomes ELSE {"ok"},
             retry : IF ShouldReinit(st.last_restart, t) THEN RetryOutcomes ELSE {"ok"}] :
        TRUE }

\* The ways a _speak_chunk call made in the state st at time t can go.
SpeakChunkResults(st, plat, sapi, t) ==
    { SpeakChunk(st, plat, sapi, f, t) : f \in Faults(st, plat, sapi, t) }

TtsState ==
    [count |-> tts_attempt_count, engine |-> engine,
     last_attempt |-> last_tts_attempt_time, last_restart |-> last_restart_time]

\* How often one _speak_chunk call calls set_voice_by_mood: once when it
\* goes on to the second attempt after _init_engine returned (line 365).
VoiceSetsIn(tiers) ==
    IF \E i \in 1..(Len(tiers) - 1) : tiers[i] = "init" /\ tiers[i + 1] = "engine"
    THEN 1 ELSE 0

\* The backends a call tried before it called _init_engine (line 360).
TriedBeforeInit(tiers) ==
    { tiers[i] : i \in { k \in 1..Len(tiers) : \A j \in 1..k : tiers[j] # "init" } }

\* A call in which no backend spoke the chunk: it ended at the console
\* print (line 381 or 304) or with an exception.
CallFailed(r) == r.ret # "return" \/ r.out = "console"

\* The failures in a row after a call with result r made gap seconds after
\* the attempt before it; the count stops at MAX_TTS_ATTEMPTS.
StreakAfter(streak, r, gap) ==
    IF ~CallFailed(r) THEN 0
    ELSE IF gap >= ATTEMPT_RESET_SECONDS THEN 1
    ELSE IF streak < MAX_TTS_ATTEMPTS THEN streak + 1 ELSE streak

\* Lines 320-331 in a call with the counter at c: engine.runAndWait() was
\* reached and raised the RuntimeError "run loop already started".
RunLoopError(st, plat, sapi, f, c) ==
    /\ c <= MAX_TTS_ATTEMPTS
    /\ UsesSapi(plat, sapi) => f.sapi \in SapiCaught
    /\ st.engine = "real" /\ f.say = "ok" /\ f.run = "run_loop"

\* Lines 330-338: the calls of time.sleep between the catch of the run loop
\* error and the external command.  There is none: the handler prints and
\* calls _try_system_command_tts at once.
RunLoopBackoffSleeps == 0

NoCall ==
    [ret |-> "none", out |-> "none", tiers |-> <<>>, inits |-> 0, peak |-> 0,
     loop_error |-> FALSE, sleeps |-> 0, init |-> "none"]

\* The fields after _speak_chunk ran with result r.
ApplySpeakChunk(r) ==
    /\ tts_attempt_count' = r.count
    /\ engine' = r.engine
    /\ last_tts_attempt_time' = now
    /\ last_restart_time' = r.last_restart
    /\ engine_inits' = engine_inits + r.inits
    /\ last_init_time' = IF r.inits > 0 THEN now ELSE last_init_time

\* ------------------------------------------------------------------ set_voice_by_mood
\* pan_config.py: the voice rate (words per minute; the macOS one when
\* platform.system() is Darwin) and the volume, here in tenths: the values
\* used when the environment does not set them.
DEFAULT_VOICE_RATE == 160
MACOS_VOICE_RATE == 190
DEFAULT_VOICE_VOLUME == 9

\* The volumes from 0.0 to 1.0, in tenths: what the environment variable
\* DEFAULT_VOICE_VOLUME is set to, and what an engine takes as volume.
VolumeRange == 0..10

\* The environment sets no voice volume.
DefaultConfig == voice_volume = DEFAULT_VOICE_VOLUME

DefaultVoiceRate(plat) == IF plat = "darwin" THEN MACOS_VOICE_RATE ELSE DEFAULT_VOICE_RATE

\* emotion_voices (lines 57-66): the moods with a voice profile, and for each
\* its rate and volume as differences to the defaults.
Moods == {"happy", "excited", "neutral", "sad", "angry", "scared", "calm", "curious"}

EmotionVoices(plat) ==
    LET voice(dr, dv) ==
            [rate |-> DefaultVoiceRate(plat) + dr, volume |-> voice_volume + dv]
    IN  [m \in Moods |->
            CASE m = "happy" -> voice(20, 1)
              [] m = "excited" -> voice(40, 1)
              [] m = "neutral" -> voice(0, 0)
              [] m = "sad" -> voice(-20, -2)
              [] m = "angry" -> voice(40, 1)
              [] m = "scared" -> voice(-30, -3)
              [] m = "calm" -> voice(-10, -1)
              [] m = "curious" -> voice(10, 0)]

\* The moods PanEmotions sets (adjust_mood, react_to_affinity), "neutral" at
\* first.
ProviderMoods == {"happy", "neutral", "sad", "angry"}

\* What a caller passes as mood_override: None, the empty string, a mood of
\* the mapping, or a string the mapping does not have.
MoodInputs == {"None", "", "bored"} \cup Moods

\* line 164: `if not mood` holds for None and for the empty string
Falsy(mood) == mood \in {"None", ""}

\* line 166: emotion_voices.get(mood, emotion_voices["neutral"])
\* (another default)
DefaultMoodHappy == "happy"
DefaultMood == "neutral"

VoiceSettings(mood, plat) ==
    IF mood \in Moods THEN EmotionVoices(plat)[mood] ELSE EmotionVoices(plat)[DefaultMood]

\* What the two engine.setProperty calls of set_voice_by_mood can do: both
\* return, or the one named raises.  DummyEngine.setProperty does nothing.
SetPropertyOutcomes(eng) == IF eng = "real" THEN {"ok", "rate", "volume"} ELSE {"ok"}

\* set_voice_by_mood(mood) with the provider's mood at ambient: the mood
\* resolved, and the properties set in order, each <<name, value>>.
SetVoiceByMood(mood, ambient, plat, outcome) ==
    LET resolved == IF Falsy(mood) THEN ambient ELSE mood
        settings == VoiceSettings(resolved, plat)
    IN  [mood |-> mood, ambient |-> ambient,
         ret |-> IF outcome = "ok" THEN "return" ELSE "raised",
         props |-> CASE outcome = "rate" -> <<>>
                     [] outcome = "volume" -> << <<"rate", settings.rate>> >>
                     [] OTHER -> << <<"rate", settings.rate>>,
                                    <<"volume", settings.volume>> >>]

NoVoiceCall == [mood |-> "None", ambient |-> "neutral", ret |-> "none", props |-> <<>>]

\* ------------------------------------------------------------------ SpeakManager
Stoppers == 1..NumStoppers

\* The texts given to speak(): None, "" (one chunk, by the fast path of
\* _chunk_text), and two sentences each longer than every chunk limit (two
\* chunks on every platform).
LongText ==
    [lead |-> 0,
     atoms |-> [i \in 1..2 |-> [w |-> i, len |-> 310, p |-> "term",
                                gap |-> IF i < 2 THEN 1 ELSE 0]]]
SpeakInputs ==
    { [kind |-> "None", text |-> EmptyStr],
      [kind |-> "str", text |-> EmptyStr],
      [kind |-> "str", text |-> LongText] }

\* The exception classes `except (AttributeError, RuntimeError, IOError)` of
\* the worker catches (line 432); any other Exception is caught at line 440.
WorkerCaught == {"AttributeError", "RuntimeError", "IOError"}

\* What a call on the pyttsx3 engine can do in the worker: return, or raise.
EngineCallOutcomes(eng) ==
    IF eng = "real" THEN {"ok", "RuntimeError", "Exception"} ELSE {"ok"}

\* The worker has made no call on the engine.
NoEngineCalls == [busy |-> FALSE, stopped |-> FALSE, engine_tried |-> FALSE]

\* The worker holds no request.
NoRequest == [id |-> 0, kind |-> "None", text |-> EmptyStr]

\* line 85: a new threading.Event is clear
SetEvent == TRUE
NewEvent == FALSE

\* SpeakManager.__init__ (lines 80-99): _init_engine either gave a pyttsx3
\* engine or, after a caught exception, the dummy engine.
Constructed ==
    /\ platform \in Platforms
    /\ has_sapi \in (IF platform = "windows" THEN BOOLEAN ELSE {FALSE})
    /\ engine \in {"real", "dummy"}
    /\ queue = <<>>
    /\ unfinished_tasks = 0
    /\ lock = "free"
    /\ speech_count = 0
    /\ speaking_event = NewEvent
    /\ active_chunks = 0
    /\ exit_requested = FALSE
    /\ now = 0
    /\ last_restart_time = 0
    /\ tts_attempt_count = 0
    /\ last_tts_attempt_time = 0
    /\ sc_last = NoCall /\ fail_streak = 0
    /\ w_pc = "loop" /\ w_req = NoRequest /\ w_chunks = <<>> /\ w_idx = 0
    /\ w_exc = "none"
    /\ s_pc = [t \in Stoppers |-> "idle"]
    /\ n_requests = 0 /\ late_chunks = 0 /\ pending_at_stop = {}
    /\ n_removed = 0 /\ engine_inits = 1 /\ voice_sets = 0
    /\ w_engine = NoEngineCalls
    /\ last_init_time = 0
    /\ ambient_mood = "neutral" /\ sv_last = NoVoiceCall

\* queue.Queue.put on a queue without a size limit: the item goes to the end
\* and put returns; it neither waits nor raises.
\* (a put that lost the item)
QueuePutDrops(q, item) == q
QueuePut(q, item) == Append(q, item)

\* ---- speak(text, mood_override): self.queue.put((text, mood_override))
Speak(input) ==
    /\ n_requests < MaxRequests
    /\ n_requests' = n_requests + 1
    /\ queue' = QueuePut(queue, [id |-> n_requests + 1, kind |-> input.kind,
                                  text |-> input.text])
    /\ unfinished_tasks' = unfinished_tasks + 1
    /\ UNCHANGED <<env_vars, voice_vars, tts_vars, active_chunks, lock, speech_count,
                   speaking_event, exit_requested, w_vars, s_pc, late_chunks,
                   pending_at_stop, n_removed, voice_sets, w_engine, now, ct_vars>>

\* ---- stop()
\* The threads that call stop() run the same code: they are numbered in the
\* order in which their calls begin.
\* line 107: self.exit_requested = True
\* (a stop() that flipped the flag instead of setting it)
StopFlagToggles(old) == ~old
StopFlag(old) == TRUE

StopSetExit(t) ==
    /\ s_pc[t] = "idle"
    /\ \A u \in Stoppers : u < t => s_pc[u] # "idle"
    /\ exit_requested' = StopFlag(exit_requested)
    /\ pending_at_stop' =
          IF exit_requested THEN pending_at_stop
          ELSE { queue[i].id : i \in 1..Len(queue) }
    /\ s_pc' = [s_pc EXCEPT ![t] = "drain"]
    /\ UNCHANGED <<env_vars, voice_vars, tts_vars, active_chunks, queue, unfinished_tasks,
                   lock, speech_count, speaking_event, w_vars, n_requests, late_chunks,
                   n_removed, voice_sets, w_engine, now, ct_vars>>

\* lines 110-115, one turn of the loop: the test of queue.empty(), get_nowait
\* and task_done.  The test only reads, and a get_nowait that finds the queue
\* empty ends the loop as the test would, so the turn is taken at the instant
\* of its get_nowait.
\* queue.task_done() raises ValueError when it was called more often than
\* put; `except queue.Empty` (line 114) does not catch that.
TaskDoneRaises(unfinished) == unfinished = 0

StopDrain(t) ==
    /\ s_pc[t] = "drain"
    /\ IF queue = <<>>
       THEN /\ s_pc' = [s_pc EXCEPT ![t] = "acquire"]
            /\ UNCHANGED <<queue, unfinished_tasks, n_removed>>
       ELSE /\ queue' = Tail(queue)
            /\ n_removed' = n_removed + 1
            /\ IF TaskDoneRaises(unfinished_tasks)
               THEN /\ s_pc' = [s_pc EXCEPT ![t] = "raised"]
                    /\ UNCHANGED unfinished_tasks
               ELSE /\ unfinished_tasks' = unfinished_tasks - 1
                    /\ s_pc' = [s_pc EXCEPT ![t] = "drain"]
    /\ UNCHANGED <<env_vars, voice_vars, tts_vars, active_chunks, lock, speech_count,
                   speaking_event, exit_requested, w_vars, n_requests, late_chunks,
                   pending_at_stop, voice_sets, w_engine, now, ct_vars>>

\* line 118: with self.lock waits until the lock is free
\* (a stop() that went on without the lock)
StopNeverWaits(holder) == TRUE
StopMayAcquire(holder) == holder = "free"

\* line 122: except Exception catches whatever engine.stop() raises
\* (a narrower clause)
StopCatchesRuntimeError(exc) == exc = "RuntimeError"
StopCatches(exc) == TRUE

\* lines 118-123: with self.lock: engine.stop(), whose exception is caught
\* and printed (the stop() is then at "caught").  The block touches nothing but the engine, so it is taken as
\* one step, at an instant at which the lock is free.
StopEngineStop(t) ==
    /\ s_pc[t] = "acquire"
    /\ StopMayAcquire(lock)
    /\ \E outcome \in EngineCallOutcomes(engine) :
          s_pc' = [s_pc EXCEPT ![t] =
                     IF outcome = "ok" THEN "clear"
                     ELSE IF StopCatches(outcome) THEN "caught" ELSE "raised"]
    /\ UNCHANGED <<env_vars, voice_vars, tts_vars, mgr_vars, w_vars, hist_vars, now, ct_vars>>

\* line 126: self.speaking_event.clear(); stop() returns
StopClear(t) ==
    /\ s_pc[t] \in {"clear", "caught"}
    /\ speaking_event' = FALSE
    /\ s_pc' = [s_pc EXCEPT ![t] = "done"]
    /\ UNCHANGED <<env_vars, voice_vars, tts_vars, active_chunks, queue, unfinished_tasks,
                   lock, speech_count, exit_requested, w_vars, hist_vars, now, ct_vars>>

\* ---- _worker
\* An exception raised inside `with self.lock`: the lock is released as the
\* exception leaves the block; the except clause and the finally follow.
WorkerRaise(exc) ==
    /\ lock' = "free"
    /\ w_exc' = exc
    /\ w_pc' = "finally"

\* line 391: while not self.exit_requested
\* (a loop that did not test the flag)
WorkerStays(exit) == FALSE
WorkerLeaves(exit) == exit

WorkerLoopTest ==
    /\ w_pc = "loop"
    /\ w_pc' = IF WorkerLeaves(exit_requested) THEN "exited" ELSE "get"
    /\ UNCHANGED <<env_vars, voice_vars, tts_vars, mgr_vars, w_req, w_chunks, w_idx,
                   w_exc, s_pc, hist_vars, now, ct_vars>>

\* queue.Queue is first in, first out: get takes the oldest item, the one at
\* position QueueGet(q) of the items in the order of their put.
\* (a last in, first out queue would take the newest)
QueueGetLast(q) == Len(q)
QueueGet(q) == 1
\* (a get that left the item in the queue)
QueueKeeps(q) == q
QueueRest(q) == [i \in 1..(Len(q) - 1) |-> IF i < QueueGet(q) THEN q[i] ELSE q[i + 1]]

\* line 395: get(timeout=0.5) on an empty queue raises queue.Empty after half
\* a second, and the loop goes on (lines 396-398).
\* (a get without timeout would wait for an item)
GetBlocks == FALSE
GetTimesOut == TRUE

\* lines 394-398: self.queue.get(timeout=0.5); queue.Empty after the timeout
WorkerGet ==
    /\ w_pc = "get"
    /\ IF queue = <<>>
       THEN /\ GetTimesOut
            /\ w_pc' = "loop"
            /\ UNCHANGED <<queue, w_req, late_chunks, n_removed>>
       ELSE /\ w_req' = queue[QueueGet(queue)]
            /\ queue' = QueueRest(queue)
            /\ n_removed' = n_removed + 1
            /\ late_chunks' = 0
            /\ w_pc' = "check_exit"
    /\ UNCHANGED <<env_vars, voice_vars, tts_vars, active_chunks, unfinished_tasks, lock,
                   speech_count, speaking_event, exit_requested, w_chunks, w_idx, w_exc,
                   s_pc, n_requests, pending_at_stop, voice_sets, w_engine, now,
                   ct_vars>>

\* lines 400-403: a task taken after exit was requested is skipped
\* (a worker without the test of line 401)
NeverSkipsTask(exit) == FALSE
SkipsTask(exit) == exit

WorkerCheckExit ==
    /\ w_pc = "check_exit"
    /\ IF SkipsTask(exit_requested)
       THEN /\ unfinished_tasks' = unfinished_tasks - 1
            /\ w_pc' = "loop"
       ELSE /\ w_pc' = "acquire"
            /\ UNCHANGED unfinished_tasks
    /\ UNCHANGED <<env_vars, voice_vars, tts_vars, active_chunks, queue, lock,
                   speech_count, speaking_event, exit_requested, w_req, w_chunks, w_idx,
                   w_exc, s_pc, hist_vars, now, ct_vars>>

\* line 406: with self.lock
WorkerMayAcquire(holder) == holder = "free"

\* line 410: hasattr(self.engine, "isBusy") and self.engine.isBusy(); the
\* DummyEngine has no isBusy.
BusyOutcomes(eng) == IF eng = "real" THEN BOOLEAN ELSE {FALSE}

\* lines 410-411: engine.stop() is called when the engine reports busy
\* (a worker that stopped the engine for every request)
StopsAlways(busy) == TRUE
StopsWhenBusy(busy) == busy

\* lines 406-414: with self.lock, then engine.isBusy() and engine.stop(),
\* which may raise, then speaking_event.set().  The engine calls touch only
\* the engine, so they are taken with the acquisition.  An exception
\* without a busy report is raised by isBusy, one after it by stop.
WorkerBegin ==
    /\ w_pc = "acquire"
    /\ WorkerMayAcquire(lock)
    /\ \E busy \in BusyOutcomes(engine), outcome \in EngineCallOutcomes(engine) :
          /\ w_engine' = [w_engine EXCEPT !.busy = busy, !.stopped = StopsWhenBusy(busy)]
          /\ IF outcome = "ok"
             THEN /\ lock' = "worker"
                  /\ speaking_event' = TRUE
                  /\ w_pc' = "set_voice"
                  /\ UNCHANGED w_exc
             ELSE /\ WorkerRaise(outcome)
                  /\ UNCHANGED speaking_event
    /\ UNCHANGED <<env_vars, voice_vars, tts_vars, active_chunks, queue, unfinished_tasks,
                   speech_count, exit_requested, w_req, w_chunks, w_idx, s_pc, n_requests,
                   late_chunks, pending_at_stop, n_removed, voice_sets, now, ct_vars>>

\* line 419: self._chunk_text(text) for the texts speak() is given, under
\* either limit.
RequestChunks ==
    [text \in { input.text : input \in SpeakInputs },
     chunk_size \in {MAX_CHUNK_LENGTH, MACOS_CHUNK_LENGTH} |-> ChunkText(text, chunk_size)]

\* line 417: self.set_voice_by_mood(mood), two engine.setProperty calls that
\* may raise; line 419: chunks = self._chunk_text(text), where re.split
\* raises TypeError when text is None.  Both touch only the engine, which the
\* lock protects, and the worker's locals.
WorkerPrepare ==
    /\ w_pc = "set_voice"
    /\ voice_sets' = voice_sets + 1
    /\ w_engine' = [w_engine EXCEPT !.busy = FALSE, !.stopped = FALSE]
    /\ \E outcome \in EngineCallOutcomes(engine) :
       IF outcome # "ok"
       THEN /\ WorkerRaise(outcome)
            /\ UNCHANGED <<w_chunks, w_idx>>
       ELSE
       IF w_req.kind = "None"
       THEN /\ WorkerRaise("TypeError")
            /\ UNCHANGED <<w_chunks, w_idx>>
       ELSE /\ w_chunks' = RequestChunks[w_req.text, ChunkSize(platform)]
            /\ w_idx' = 1
            /\ w_pc' = "for"
            /\ UNCHANGED <<lock, w_exc>>
    /\ UNCHANGED <<env_vars, voice_vars, tts_vars, active_chunks, queue, unfinished_tasks,
                   speech_count, speaking_event, exit_requested, w_req, s_pc, n_requests,
                   late_chunks, pending_at_stop, n_removed, now, ct_vars>>

\* lines 420-423: the next chunk, unless there is none or exit was requested
\* (a chunk loop without the test of line 422)
WorkerNeverBreaks(exit) == FALSE
WorkerMustBreak(exit) == exit

WorkerForTest ==
    /\ w_pc = "for"
    /\ w_pc' = IF w_idx > Len(w_chunks) \/ WorkerMustBreak(exit_requested)
               THEN "end_with" ELSE "call"
    /\ UNCHANGED <<env_vars, voice_vars, tts_vars, mgr_vars, w_req, w_chunks, w_idx,
                   w_exc, s_pc, hist_vars, now, ct_vars>>

\* line 425: self._speak_chunk(chunk, mood) is called
WorkerCallSpeakChunk ==
    /\ w_pc = "call"
    /\ late_chunks' = IF exit_requested THEN late_chunks + 1 ELSE late_chunks
    /\ active_chunks' = active_chunks + 1
    /\ w_pc' = "in_chunk"
    /\ UNCHANGED <<env_vars, voice_vars, tts_vars, queue, unfinished_tasks, lock,
                   speech_count, speaking_event, exit_requested, w_req, w_chunks, w_idx,
                   w_exc, s_pc, n_requests, pending_at_stop, n_removed, voice_sets,
                   w_engine, now, ct_vars>>

\* Every way _speak_chunk speaks waits for the utterance: sapi_engine.Speak
\* (line 312), engine.runAndWait (line 324) and subprocess.run (lines 256,
\* 262).  The call in progress is over when line 425 returns or raises.
\* (a _speak_chunk that returned while the utterance went on)
ChunkCallGoesOn(n) == n
ChunkCallEnds(n) == n - 1

\* lines 425-427: _speak_chunk runs and returns, then the sleep; or it raises
WorkerSpeakChunk ==
    /\ w_pc = "in_chunk"
    /\ active_chunks' = ChunkCallEnds(active_chunks)
    /\ UNCHANGED <<sc_last, fail_streak, env_vars, voice_vars, queue, unfinished_tasks,
                   speech_count, speaking_event, exit_requested, w_req, w_chunks, s_pc,
                   n_requests, late_chunks, pending_at_stop, n_removed, now, ct_vars>>
    /\ \E r \in SpeakChunkResults(TtsState, platform, has_sapi, now) :
          /\ ApplySpeakChunk(r)
          /\ voice_sets' = voice_sets + VoiceSetsIn(r.tiers)
          /\ w_engine' = IF r.inits > 0
                         THEN [w_engine EXCEPT
                                 !.engine_tried = "engine" \in TriedBeforeInit(r.tiers)]
                         ELSE w_engine
          /\ IF r.ret = "return"
             THEN /\ w_idx' = w_idx + 1
                  /\ w_pc' = "for"
                  /\ UNCHANGED <<lock, w_exc>>
             ELSE /\ WorkerRaise(r.ret)
                  /\ UNCHANGED w_idx

\* line 436: self.speaking_event.clear()
\* (a finally that left the flag as it was)
WorkerKeeps(flag) == flag
WorkerClears(flag) == FALSE

\* lines 429-430 and the end of the with block: the lock is released
WorkerEndWith ==
    /\ w_pc = "end_with"
    /\ speech_count' = speech_count + 1
    /\ lock' = "free"
    /\ w_pc' = "finally"
    /\ UNCHANGED <<env_vars, voice_vars, tts_vars, active_chunks, queue, unfinished_tasks,
                   speaking_event, exit_requested, w_req, w_chunks, w_idx, w_exc, s_pc,
                   hist_vars, now, ct_vars>>

\* Whether the worker reaches line 438 after the finally: an exception the
\* inner except clause caught, or none, goes on to task_done; any other is
\* caught by the outer except (line 440), which goes back to the loop test.
ReachesTaskDone(exc) == exc = "none" \/ exc \in WorkerCaught

\* lines 440-443: except Exception prints the error and sleeps; the while
\* loop goes on.
\* (without the clause, the exception would end the thread)
NoOuterExcept == "dead"
OuterExcept == "loop"

\* lines 432-438: the except clause; finally: self.speaking_event.clear();
\* then self.queue.task_done(), which no other thread can observe.  The
\* chunk loop is over: its list and position are not read again before line
\* 419 assigns them for the next request.
WorkerFinally ==
    /\ w_pc = "finally"
    /\ speaking_event' = WorkerClears(speaking_event)
    /\ unfinished_tasks' =
          IF ReachesTaskDone(w_exc) THEN unfinished_tasks - 1 ELSE unfinished_tasks
    /\ w_pc' = IF ReachesTaskDone(w_exc) THEN "loop" ELSE OuterExcept
    /\ w_exc' = "none"
    /\ voice_sets' = 0
    /\ w_engine' = NoEngineCalls
    /\ w_chunks' = <<>> /\ w_idx' = 0 /\ late_chunks' = 0
    /\ UNCHANGED <<env_vars, voice_vars, tts_vars, active_chunks, queue, lock,
                   speech_count, exit_requested, w_req, s_pc, n_requests, pending_at_stop,
                   n_removed, now, ct_vars>>

Worker ==
    \/ WorkerLoopTest \/ WorkerGet \/ WorkerCheckExit
    \/ WorkerBegin \/ WorkerPrepare \/ WorkerForTest
    \/ WorkerCallSpeakChunk \/ WorkerSpeakChunk \/ WorkerEndWith
    \/ WorkerFinally

Stop(t) ==
    \/ StopSetExit(t) \/ StopDrain(t)
    \/ StopEngineStop(t) \/ StopClear(t)

\* ------------------------------------------------------------------ the chunker on its own
PunctClasses == {"none", "sec", "term"}

\* The texts of n words: word i has identity i; words are separated by one
\* space and the text ends with lastgap spaces.
TextsOf(n) ==
    { [lead |-> 0,
       atoms |-> [i \in 1..n |->
                    [w |-> i, len |-> ls[i], p |-> ps[i],
                     gap |-> IF i < n THEN 1 ELSE lastgap]]] :
        ls \in [1..n -> WordLens], ps \in [1..n -> PunctClasses], lastgap \in {0, 1} }

InputTexts == UNION { TextsOf(n) : n \in 0..MaxWords }

ChunkerIdle ==
    /\ ct_text = EmptyStr /\ ct_size = ChunkSize(platform) /\ ct_out = <<>>
    /\ ct_pc = "off"

InitChunk ==
    /\ Constructed /\ DefaultConfig
    /\ ct_text \in InputTexts
    /\ ct_size = ChunkSize(platform)
    /\ ct_out = <<>>
    /\ ct_pc = "call"

\* chunks = self._chunk_text(text)
RunChunkText ==
    /\ ct_pc = "call"
    /\ ct_out' = ChunkText(ct_text, ct_size)
    /\ ct_pc' = "done"
    /\ UNCHANGED <<ct_text, ct_size>>
    /\ UNCHANGED <<env_vars, voice_vars, tts_vars, mgr_vars, w_vars, s_pc, hist_vars, now>>

NextChunk == RunChunkText

vars == <<env_vars, voice_vars, tts_vars, mgr_vars, w_vars, s_pc, hist_vars, now, ct_vars>>

SpecChunk == InitChunk /\ [][NextChunk]_vars

\* ------------------------------------------------------------------ the scheduler
Init == Constructed /\ ChunkerIdle /\ DefaultConfig

Next ==
    \/ \E input \in SpeakInputs : Speak(input)
    \/ \E t \in Stoppers : Stop(t)
    \/ Worker

Spec == Init /\ [][Next]_vars

\* ------------------------------------------------------------------ _speak_chunk on its own
\* The clock advances between calls by a step on either side of the restart
\* cooldown, up to a time past the attempt window.
TickSteps == {5, 6}

InitTTS == Constructed /\ ChunkerIdle /\ DefaultConfig

\* self._speak_chunk(chunk, mood), called directly as the tests call it
TtsCall ==
    /\ \E f \in Faults(TtsState, platform, has_sapi, now) :
          LET r == SpeakChunk(TtsState, platform, has_sapi, f, now) IN
          /\ engine_inits + r.inits <= MaxInits
          /\ ApplySpeakChunk(r)
          /\ sc_last' = [ret |-> r.ret, out |-> r.out, tiers |-> r.tiers,
                         inits |-> r.inits, peak |-> r.peak,
                         loop_error |-> RunLoopError(TtsState, platform, has_sapi, f, r.peak),
                         sleeps |-> IF RunLoopError(TtsState, platform, has_sapi, f, r.peak)
                                    THEN RunLoopBackoffSleeps ELSE 0,
                         init |-> IF r.inits > 0 THEN f.init ELSE "none"]
          /\ fail_streak' = StreakAfter(fail_streak, r, now - last_tts_attempt_time)
    /\ UNCHANGED <<env_vars, voice_vars, mgr_vars, w_vars, s_pc, hist_vars, now, ct_vars>>

\* time.time() advances
Tick ==
    /\ \E d \in TickSteps :
          /\ now + d <= MaxTime
          /\ now' = now + d
    /\ UNCHANGED <<env_vars, voice_vars, tts_vars, mgr_vars, w_vars, s_pc, hist_vars, ct_vars>>

NextTTS == TtsCall \/ Tick

SpecTTS == InitTTS /\ [][NextTTS]_vars

\* ------------------------------------------------------------------ set_voice_by_mood on its own
\* The voice volume is whatever the environment was configured with.
InitVoice == Constructed /\ ChunkerIdle /\ voice_volume \in VolumeRange

\* pan_emotions.adjust_mood, react_to_affinity: the provider's mood changes
SetMood ==
    /\ \E m \in ProviderMoods : ambient_mood' = m
    /\ UNCHANGED <<env_vars, sv_last, tts_vars, mgr_vars, w_vars, s_pc, hist_vars, now,
                   ct_vars>>

\* self.set_voice_by_mood(mood), as the worker calls it at line 417 with the
\* mood_override of the request it took
VoiceCall ==
    /\ \E mood \in MoodInputs, outcome \in SetPropertyOutcomes(engine) :
          sv_last' = SetVoiceByMood(mood, ambient_mood, platform, outcome)
    /\ UNCHANGED <<env_vars, ambient_mood, tts_vars, mgr_vars, w_vars, s_pc, hist_vars, now,
                   ct_vars>>

NextVoice == SetMood \/ VoiceCall

SpecVoice == InitVoice /\ [][NextVoice]_vars

\* ------------------------------------------------------------------ properties
\* The worker is processing the request w_req: between the exit test of line
\* 401 and the task_done of line 438.
Processing == w_pc \in {"acquire", "set_voice", "for", "call", "in_chunk", "end_with", "finally"}

QueueIds == { queue[i].id : i \in 1..Len(queue) }

\* C6: empty text is a no-op: speak("") and speak(None) enqueue no request,
\* so no request with an empty or missing text is ever in the queue or in the
\* worker's hands, and none makes the worker set the speaking flag.
IsEmptyInput(req) == req.kind = "None" \/ StrLen(req.text) = 0

EmptyTextIsNoOp ==
    /\ \A i \in 1..Len(queue) : ~IsEmptyInput(queue[i])
    /\ Processing => ~IsEmptyInput(w_req)

\* C8: the fallback chain always succeeds: every call of _speak_chunk returns
\* normally, whatever backends fail, and ends at the console print when no
\* audio backend worked.
FallbackAlwaysReturns ==
    sc_last.ret # "none" =>
        /\ sc_last.ret = "return"
        /\ sc_last.out \in {"sapi", "engine", "dummy", "system", "console"}

\* C10: chunking reconstruction: the chunks of _chunk_text, joined with single
\* spaces, have exactly the word sequence of the text.
ChunkingReconstructs ==
    ct_pc = "done" => JoinedWords(ct_out) = Words(ct_text)

\* C1: first in, first out: while stop() has not been called, the worker
\* takes the requests in the order of their enqueueing, each one after the
\* one enqueued just before it; it holds one request at a time, so the chunks
\* of two requests are never interleaved.
FifoOrder ==
    [][(~exit_requested' /\ w_req' # w_req) => w_req'.id = w_req.id + 1]_vars

FifoThirdSpoken ==
    /\ ~exit_requested
    /\ w_pc = "in_chunk" /\ w_req.id = 3 /\ w_idx = 2

\* C2: cancellation latency: of the request in the worker's hands, at most one
\* chunk is passed to _speak_chunk after stop() set the cancellation flag.
CancellationLatency == late_chunks <= 1

OneLateChunkThenBreak ==
    /\ late_chunks = 1
    /\ w_pc = "end_with" /\ w_idx <= Len(w_chunks)

\* C3: stop() discards the pending requests: a request that was in the queue
\* when stop() set the flag is never processed, and is no longer in the queue
\* when a stop() has returned; when every request made so far was pending,
\* nothing was or is being spoken, the speaking flag is clear, and the queue
\* is empty once a stop() has returned.
StopDiscardsPending ==
    /\ Processing => w_req.id \notin pending_at_stop
    /\ (\E t \in Stoppers : s_pc[t] = "done") => QueueIds \cap pending_at_stop = {}
    /\ (n_requests >= 1 /\ pending_at_stop = 1..n_requests) =>
          /\ ~Processing /\ ~speaking_event
          /\ active_chunks = 0 /\ speech_count = 0
          /\ (\E t \in Stoppers : s_pc[t] = "done") => queue = <<>>

ThreePendingDiscarded ==
    /\ pending_at_stop = {1, 2, 3}
    /\ \E t \in Stoppers : s_pc[t] = "done"
    /\ queue = <<>> /\ w_pc = "exited"

\* C4: the speaking flag covers the whole request: while a chunk is being
\* spoken, and between two chunks of a request, speaking_event is set, also
\* when stop() runs at the same time.
SpeakingFlagCoversRequest ==
    (w_pc \in {"call", "in_chunk"} \/ (w_pc = "for" /\ w_idx > 1)) => speaking_event

BetweenChunksWhileStopWaits ==
    /\ w_pc = "for" /\ w_idx = 2 /\ 2 <= Len(w_chunks)
    /\ exit_requested
    /\ \E t \in Stoppers : s_pc[t] = "acquire"

\* C5: at most one chunk is being spoken at any instant: at most one
\* _speak_chunk call is in progress, and it is the worker's, made under the
\* lock.
AtMostOneChunk ==
    /\ active_chunks <= 1
    /\ active_chunks = 1 => (w_pc = "in_chunk" /\ lock = "worker")

SecondChunkDuringStops ==
    /\ active_chunks = 1 /\ w_idx = 2
    /\ \A t \in Stoppers : s_pc[t] \in {"drain", "acquire"}
    /\ queue # <<>>

\* C7: stop() is idempotent.  Once every stop() that was called has returned
\* and the worker has left its loop, the scheduler is in the stopped state
\* (flag set, nothing being spoken, speaking flag clear, lock free, no request
\* of before the stop left in the queue), whether stop() was called once or
\* several times, one after the other or at the same time; and a stop() that
\* runs after another one has returned and the worker has exited changes none
\* of these: it can only drain requests enqueued since.
StopsReturned ==
    /\ \E t \in Stoppers : s_pc[t] = "done"
    /\ \A t \in Stoppers : s_pc[t] \in {"idle", "done"}

Stopped ==
    /\ exit_requested
    /\ ~speaking_event
    /\ lock = "free" /\ active_chunks = 0
    /\ QueueIds \cap pending_at_stop = {}

LaterStopStep ==
    /\ w_pc = "exited"
    /\ \E t, u \in Stoppers : t # u /\ s_pc[u] = "done" /\ s_pc'[t] # s_pc[t]

WorkerSurvives ==
    /\ w_pc # "dead"
    /\ ~exit_requested =>
          /\ w_pc # "exited"
          /\ ENABLED Worker
          /\ Len(queue) = n_requests - w_req.id
          /\ \A i \in 1..Len(queue) : queue[i].id = w_req.id + i

\* The first request ended in the outer except clause (its task_done never
\* ran), and the second one is being spoken.
SpokenAfterFailure ==
    /\ ~exit_requested
    /\ w_pc = "in_chunk" /\ w_req.id = 2
    /\ unfinished_tasks = n_requests

\* A place inside the string s where one of the two re.split patterns cuts:
\* a word ending in punctuation that is followed by spaces and more words.
HasSplitPoint(s) ==
    \E i \in 1..(Len(s.atoms) - 1) : s.atoms[i].p # "none" /\ s.atoms[i].gap >= 1

HasPunctuation(s) == \E i \in 1..Len(s.atoms) : s.atoms[i].p # "none"

\* C11 (as the code has it): every chunk of _chunk_text is no longer than the
\* limit, except a chunk that is one segment with no place to split inside
\* it; such a segment may well end in punctuation.
ChunkSizeBound ==
    ct_pc = "done" =>
        \A k \in 1..Len(ct_out) :
            StrLen(ct_out[k]) <= ct_size \/ ~HasSplitPoint(ct_out[k])

\* C11 (as stated): every chunk is no longer than the limit, except a chunk
\* that is one segment holding no split punctuation at all.
ChunkSizeBoundNoPunctuation ==
    ct_pc = "done" =>
        \A k \in 1..Len(ct_out) :
            StrLen(ct_out[k]) <= ct_size \/ ~HasPunctuation(ct_out[k])

LongSegmentEndingInComma ==
    /\ ct_pc = "done" /\ Len(ct_out) >= 2
    /\ StrLen(ct_out[1]) > ct_size
    /\ ct_out[1].atoms[Len(ct_out[1].atoms)].p = "sec"
    /\ StrLen(ct_out[2]) <= ct_size

\* C12: the fast path: a text no longer than the limit comes back as the one
\* chunk [text], unchanged: not trimmed, not split at its sentence ends.
ChunkingFastPath ==
    (ct_pc = "done" /\ StrLen(ct_text) <= ct_size) => ct_out = <<ct_text>>

ShortTextOfTwoSentences ==
    /\ ct_pc = "done" /\ StrLen(ct_text) <= ct_size
    /\ Len(SplitAfter(ct_text, "term")) = 3
    /\ ct_text # Strip(ct_text)
    /\ ct_out = <<ct_text>>

\* C13: greedy sentence packing.  For a text longer than the limit whose
\* sentences each fit, the chunks hold the words of the text in order, every
\* chunk but the last ends at the end of a sentence, no chunk exceeds the
\* limit, every chunk begins with the beginning of a sentence, and a chunk
\* ends only where the next sentence (as re.split gave it) would not have
\* fitted behind it after a space.  With limit 20, "Hello there. How are you today? I hope you are
\* well." gives its three sentences.
SentencesFit(text, chunk_size) ==
    /\ StrLen(text) > chunk_size
    /\ \A i \in 1..Len(SplitAfter(text, "term")) :
          StrLen(SplitAfter(text, "term")[i]) <= chunk_size

\* The sentence of the text with which the chunk c begins; an empty chunk is
\* the empty piece that re.split gives after a text ending in spaces.
FirstSentence(text, c) ==
    LET sentences == SplitAfter(text, "term") IN
    IF c.atoms = <<>>
    THEN sentences[Len(sentences)]
    ELSE CHOOSE s \in { sentences[i] : i \in 1..Len(sentences) } :
            s.atoms # <<>> /\ s.atoms[1].w = c.atoms[1].w

HelloWords ==
    << <<5, "none">>, <<6, "term">>, <<3, "none">>, <<3, "none">>, <<3, "none">>,
       <<6, "term">>, <<1, "none">>, <<4, "none">>, <<3, "none">>, <<3, "none">>,
       <<5, "term">> >>

HelloPiece(a, b) ==
    [lead |-> 0,
     atoms |-> [i \in 1..(b - a + 1) |->
                  [w |-> a + i - 1, len |-> HelloWords[a + i - 1][1],
                   p |-> HelloWords[a + i - 1][2],
                   gap |-> IF a + i - 1 < b THEN 1 ELSE 0]]]

GreedySentencePacking ==
    /\ ChunkText(HelloPiece(1, 11), 20)
          = <<HelloPiece(1, 2), HelloPiece(3, 6), HelloPiece(7, 11)>>
    /\ (ct_pc = "done" /\ SentencesFit(ct_text, ct_size)) =>
          /\ JoinedWords(ct_out) = Words(ct_text)
          /\ \A k \in 1..Len(ct_out) :
                /\ StrLen(ct_out[k]) <= ct_size
                /\ ct_out[k] = Strip(ct_out[k])
          /\ \A k \in 1..(Len(ct_out) - 1) :
                /\ ct_out[k].atoms # <<>>
                /\ ct_out[k].atoms[Len(ct_out[k].atoms)].p = "term"
                /\ ct_out[k + 1].atoms # <<>> =>
                      \E i \in 1..Len(SplitAfter(ct_text, "term")) :
                         LET s == SplitAfter(ct_text, "term")[i] IN
                         s.atoms # <<>> /\ s.atoms[1].w = ct_out[k + 1].atoms[1].w
                /\ StrLen(ct_out[k]) + 1
                      + StrLen(FirstSentence(ct_text, ct_out[k + 1])) > ct_size

TwoSentencesPackedThenFlush ==
    /\ ct_pc = "done" /\ SentencesFit(ct_text, ct_size)
    /\ Len(ct_out) = 2
    /\ Len(SplitAfter(ct_out[1], "term")) = 2
    /\ Len(ct_out[2].atoms) = 1

\* C14: empty input to the chunker gives an empty sequence of chunks.
EmptyTextNoChunks ==
    (ct_pc = "done" /\ StrLen(ct_text) = 0) => ct_out = <<>>

\* C15: speak() is non-blocking and thread-safe.  A speak() call can be made
\* and returns in every state (whatever the worker does, whoever holds the
\* lock, stopped or not); it puts exactly one request at the end of the queue
\* and touches nothing else; and no request is lost or doubled: the requests
\* in the queue are distinct, in the order of their calls, and together with
\* those taken off the queue they are all the requests made.
SpeakCallsLeft == n_requests < MaxRequests

SpeakStep == n_requests' # n_requests

SpeakNonBlocking ==
    /\ [](SpeakCallsLeft => ENABLED (\E input \in SpeakInputs : Speak(input)))
    /\ [](/\ n_removed + Len(queue) = n_requests
          /\ \A i \in 1..Len(queue) : queue[i].id \in 1..n_requests
          /\ \A i, j \in 1..Len(queue) : i < j => queue[i].id < queue[j].id)
    /\ [][SpeakStep =>
            /\ n_requests' = n_requests + 1
            /\ Len(queue') = Len(queue) + 1
            /\ SubSeq(queue', 1, Len(queue)) = queue
            /\ queue'[Len(queue')].id = n_requests'
            /\ UNCHANGED <<lock, speaking_event, exit_requested, engine, w_vars, s_pc,
                           speech_count, active_chunks, n_removed>>]_vars

\* A third request is in the queue behind the one being spoken, put there
\* while the worker held the lock and a stop() was draining.
SpeakWhileWorkerHoldsLock ==
    /\ lock = "worker" /\ w_pc = "in_chunk" /\ w_req.id = 1
    /\ \E t \in Stoppers : s_pc[t] = "acquire"
    /\ Len(queue) = 1 /\ queue[1].id = 3

\* C16: each request is consumed exactly once.  A request leaves the queue in
\* one step, taken either by the worker's get or by the get_nowait of a
\* stop(), never by both; every taking removes the oldest request; the
\* request in the worker's hands and all earlier ones are no longer in the
\* queue, so none is taken or spoken again, and one drained by stop() never
\* reaches the worker; and the worker passes the chunks of its request one
\* after the other, each once.
TakenByWorker ==
    /\ w_pc = "get" /\ w_pc' = "check_exit"
    /\ w_req' = Head(queue) /\ w_req'.id > w_req.id
    /\ UNCHANGED s_pc

TakenByStop ==
    /\ UNCHANGED w_vars
    /\ \E t \in Stoppers : s_pc[t] = "drain" /\ s_pc' = [s_pc EXCEPT ![t] = s_pc'[t]]

ConsumedExactlyOnce ==
    /\ [](/\ n_removed + Len(queue) = n_requests
          /\ \A i \in 1..Len(queue) : queue[i].id > w_req.id)
    /\ [][(n_removed' # n_removed \/ Len(queue') < Len(queue)) =>
            /\ n_removed' = n_removed + 1
            /\ queue # <<>> /\ queue' = Tail(queue)
            /\ (TakenByWorker /\ ~TakenByStop) \/ (TakenByStop /\ ~TakenByWorker)]_vars
    /\ [][(w_pc = "in_chunk" /\ w_pc' = "for") =>
            (w_req' = w_req /\ w_chunks' = w_chunks /\ w_idx' = w_idx + 1)]_vars
    /\ [][w_pc' = "call" => (w_pc \in {"for", "call"} /\ UNCHANGED <<w_req, w_idx>>)]_vars

\* The first request is being spoken and the two behind it were taken by the
\* drain loop of a stop().
OneSpokenTwoDrained ==
    /\ w_pc = "in_chunk" /\ w_req.id = 1
    /\ n_removed = 3 /\ queue = <<>>
    /\ \E t \in Stoppers : s_pc[t] = "acquire"

\* C17: no exception reaches the caller.  No stop() call ever ends with an
\* exception: what engine.stop() raises is caught inside stop(), and
\* task_done in the drain loop is never called more often than put (the
\* count of unfinished tasks covers the requests still in the queue); and
\* speak() can always be made and returns.
NoExceptionToCaller ==
    /\ \A t \in Stoppers : s_pc[t] # "raised"
    /\ unfinished_tasks >= Len(queue)
    /\ SpeakCallsLeft => \A input \in SpeakInputs : ENABLED Speak(input)

\* engine.stop() raised inside a stop() that had drained requests, and the
\* exception was caught.
EngineStopRaisedAndCaught ==
    /\ \E t \in Stoppers : s_pc[t] = "caught"
    /\ engine = "real"
    /\ pending_at_stop # {} /\ queue = <<>>

\* C18: stopped is terminal.  Once exit_requested is set no step clears it;
\* a worker that is not processing a request starts none: at its loop test it
\* leaves the loop, a request it takes or has taken is skipped, and it does
\* not set the speaking flag; a worker that has left stays out.  So when
\* requests were pending at the stop, the only request still processed is one
\* taken before all of them, never a later one.
NotProcessing == {"loop", "get", "check_exit", "exited"}

StoppedIsTerminal ==
    /\ [][exit_requested =>
            /\ exit_requested'
            /\ w_pc \in NotProcessing =>
                  /\ w_pc' \in NotProcessing
                  /\ ~speaking_event => ~speaking_event'
                  /\ UNCHANGED <<speech_count, active_chunks, tts_vars>>
            /\ (w_pc = "loop" /\ w_pc' # w_pc) => w_pc' = "exited"
            /\ w_pc = "exited" => UNCHANGED w_vars]_vars
    /\ []((exit_requested /\ Processing) =>
            \A id \in pending_at_stop : w_req.id < id)

\* Request 1 was pending at the stop; request 2, enqueued by a later speak(),
\* was taken by the worker and skipped; nothing was spoken and the worker left.
LaterRequestSkipped ==
    /\ exit_requested /\ pending_at_stop = {1}
    /\ w_req.id = 2 /\ w_pc = "exited"
    /\ speech_count = 0 /\ ~speaking_event

\* ------------------------------------------------------------------ progress
\* The worker is a thread of its own: it is scheduled again and again, and
\* every call it makes on a backend returns or raises.  Callers of speak() and
\* stop() are under no obligation.
\* Progress is checked with a pyttsx3 engine, on Linux (an external command
\* to fall back on) and on Windows with SAPI (whose exceptions can leave
\* _speak_chunk).
InitLive ==
    /\ Init
    /\ engine = "real"
    /\ platform \in {"linux", "windows"}
    /\ platform = "windows" => has_sapi

SpecLive == InitLive /\ [][Next]_vars /\ WF_vars(Worker)

\* C19: shutdown is observed: once stop() has set exit_requested, the worker
\* leaves its loop, also when the queue is empty.
ShutdownObserved == exit_requested ~> (w_pc = "exited")

\* The worker has left its loop after a stop() that found the queue empty
\* and the worker polling it.
ExitedFromEmptyQueue ==
    /\ w_pc = "exited" /\ n_requests = 0
    /\ \E t \in Stoppers : s_pc[t] = "done"

\* C20: the initial state.  As long as no speak() and no stop() was called,
\* the SpeakManager is as __init__ left it: the engine handle was initialized
\* exactly once (to a pyttsx3 engine or to the dummy engine), the queue is
\* empty, the speaking flag is clear, speech_count is 0, the cancellation
\* flag is not set, the lock is free and the worker only polls the queue.
NothingCalledYet == n_requests = 0 /\ \A t \in Stoppers : s_pc[t] = "idle"

InitialState ==
    NothingCalledYet =>
        /\ engine_inits = 1 /\ engine \in {"real", "dummy"}
        /\ queue = <<>> /\ unfinished_tasks = 0
        /\ ~speaking_event
        /\ speech_count = 0
        /\ ~exit_requested
        /\ lock = "free" /\ active_chunks = 0
        /\ w_pc \in {"loop", "get"}

\* The worker is polling the empty queue of a new SpeakManager whose
\* pyttsx3 engine could not be created.
FreshWithDummyEngine ==
    /\ NothingCalledYet
    /\ w_pc = "get" /\ engine = "dummy"

\* C21: a larger chunk limit never produces more chunks: for every text, the
\* chunks _chunk_text makes with the macOS limit are no more than those it
\* makes with the default limit.
LargerLimitFewerChunks ==
    (ct_pc = "done" /\ ct_size = MACOS_CHUNK_LENGTH) =>
        Len(ct_out) <= Len(ChunkText(ct_text, MAX_CHUNK_LENGTH))

\* C22: the voice profile is applied per chunk: when the k-th chunk of a
\* request is passed to _speak_chunk, set_voice_by_mood has been called at
\* least k times for that request, once before each chunk.
VoiceAppliedPerChunk ==
    w_pc = "in_chunk" => voice_sets >= w_idx

\* The tiers a call tried hold no primary backend: neither SAPI nor the
\* pyttsx3 engine nor a reinitialization.
SkipsPrimary(tiers) ==
    \A i \in 1..Len(tiers) : tiers[i] \in {"system", "console"}

\* C23: the failure threshold.  After MAX_TTS_ATTEMPTS direct calls in a row
\* that ended in failure, less than ATTEMPT_RESET_SECONDS apart, every call
\* made before the time-based reset (no more than ATTEMPT_RESET_SECONDS after
\* the attempt before it) goes straight to the fallback tier and does not try
\* a primary backend.
FailureThreshold ==
    [][(/\ now' = now
        /\ fail_streak >= MAX_TTS_ATTEMPTS
        /\ now - last_tts_attempt_time <= ATTEMPT_RESET_SECONDS)
       => SkipsPrimary(sc_last'.tiers)]_vars

\* C24: engine reinitialization is rate-limited: every call of _init_engine
\* made from _speak_chunk comes more than RESTART_COOLDOWN_SECONDS after the
\* call of _init_engine before it (the constructor's included), also when
\* the call before it ended with an exception.
ReinitRateLimited ==
    [][engine_inits' > engine_inits =>
          now - last_init_time > RESTART_COOLDOWN_SECONDS]_vars

\* The rank of a backend in the attempt order; a reinitialization is not a
\* backend.
TierRank(tier) ==
    CASE tier = "sapi" -> 1
      [] tier = "engine" -> 2
      [] tier = "system" -> 3
      [] tier = "console" -> 4
      [] OTHER -> 0

\* The first attempt of the backend at position j of the tiers tried.
FirstAttempt(tiers, j) ==
    /\ tiers[j] # "init"
    /\ \A i \in 1..(j - 1) : tiers[i] # tiers[j]

\* The backend that emitted the chunk was the last one tried.
EndsAtSuccess(call) ==
    LET last == call.tiers[Len(call.tiers)] IN
    CASE call.ret # "return" -> last = "sapi"
      [] call.out = "dummy" -> last = "engine"
      [] OTHER -> last = call.out

\* C25 (as the code has it): the backend attempt order.  In every call the
\* backends are first attempted in the order SAPI (when there is one),
\* pyttsx3 engine, external command, console print, and nothing is attempted
\* after a backend has succeeded.  While the failure counter is not above the
\* threshold, the first attempt of a backend comes after an attempt of every
\* earlier available one; above it the call goes straight to the external
\* command.  The engine is attempted a second time right after a
\* reinitialization, which may follow a failed external command, and the
\* external command is attempted a second time when it failed after the run
\* loop error.
AttemptOrder ==
    sc_last.ret # "none" =>
        LET tiers == sc_last.tiers IN
        /\ tiers # <<>> /\ EndsAtSuccess(sc_last)
        /\ \A i, j \in 1..Len(tiers) :
              (i < j /\ tiers[i] # "init" /\ FirstAttempt(tiers, j)) =>
                  TierRank(tiers[i]) < TierRank(tiers[j])
        /\ IF sc_last.peak > MAX_TTS_ATTEMPTS
           THEN tiers \in {<<"system">>, <<"system", "console">>}
           ELSE /\ tiers[1] = (IF platform = "windows" /\ has_sapi THEN "sapi" ELSE "engine")
                /\ \A j \in 2..Len(tiers) :
                      FirstAttempt(tiers, j) =>
                          \E i \in 1..(j - 1) : TierRank(tiers[i]) = TierRank(tiers[j]) - 1
        /\ \A i, j \in 1..Len(tiers) :
              (i < j /\ tiers[i] = tiers[j]) =>
                  /\ tiers[i] \in {"engine", "system"}
                  /\ tiers[j] = "engine" => tiers[j - 1] = "init"
        /\ \A j \in 2..Len(tiers) : tiers[j - 1] = "init" => tiers[j] \in {"engine", "system"}

\* C25 (as stated): in every call the backends are attempted in the order
\* SAPI, engine, external command, console print; a later one is attempted
\* only after every earlier available one has been attempted, and nothing is
\* attempted after a success.
AttemptOrderEveryChunk ==
    sc_last.ret # "none" =>
        LET tiers == sc_last.tiers IN
        /\ tiers # <<>> /\ EndsAtSuccess(sc_last)
        /\ \A i, j \in 1..Len(tiers) :
              (i < j /\ tiers[i] # "init" /\ tiers[j] # "init") =>
                  TierRank(tiers[i]) <= TierRank(tiers[j])
        /\ tiers[1] = (IF platform = "windows" /\ has_sapi THEN "sapi" ELSE "engine")

\* SAPI failed, runAndWait raised the run loop error, there is no external
\* command, the new engine failed as well, and the chunk was printed.
EveryTierTried ==
    sc_last.tiers = <<"sapi", "engine", "system", "init", "engine", "system", "console">>

\* C26: the handling of the run loop error.  When engine.runAndWait raises
\* "run loop already started", _speak_chunk catches it, waits a fixed backoff
\* and goes on to the external command; when that command succeeds the call
\* ends there, with the failure counter reset and the engine not
\* reinitialized; and the call returns normally in every case.
RunLoopErrorHandled ==
    sc_last.loop_error =>
        /\ sc_last.ret = "return"
        /\ sc_last.sleeps >= 1
        /\ \E i \in 1..(Len(sc_last.tiers) - 1) :
              /\ sc_last.tiers[i] = "engine" /\ sc_last.tiers[i + 1] = "system"
              /\ \A k \in 1..i : sc_last.tiers[k] # "init"
        /\ (sc_last.out = "system" /\ sc_last.inits = 0 /\ "console" \notin
               { sc_last.tiers[k] : k \in 1..Len(sc_last.tiers) }) =>
              tts_attempt_count = 0

\* C27: every request taken from the queue is marked done exactly once: the
\* queue's count of unfinished tasks is the number of requests still in the
\* queue plus the one the worker has taken and not yet finished, so it is 0
\* once every request is consumed.
TaskDoneExactlyOnce ==
    unfinished_tasks = Len(queue) + (IF w_pc = "check_exit" \/ Processing THEN 1 ELSE 0)

\* C28: the transitions of the state machine.  The speaking flag goes from
\* clear to set only in the worker's step of line 414, for a request the
\* worker has taken from the queue; and it is clear whenever the worker is
\* not processing a request: at its loop test, while it waits on the queue,
\* with a request just taken, and after it has left, whether the request
\* before was spoken to its end, cancelled, or failed with an exception.
StateMachineTransitions ==
    /\ []((w_pc \in NotProcessing \/ w_pc = "acquire") => ~speaking_event)
    /\ [][(~speaking_event /\ speaking_event') =>
            /\ w_pc = "acquire" /\ w_pc' = "set_voice"
            /\ w_req.id >= 1 /\ w_req.id \notin QueueIds
            /\ lock' = "worker"]_vars

\* The worker waits on the queue for the second request with the flag clear
\* after the first one failed with an exception that only the outer except
\* clause caught.
IdleAfterFailedRequest ==
    /\ w_pc = "get" /\ w_req.id = 1 /\ ~exit_requested
    /\ speech_count = 0 /\ unfinished_tasks = Len(queue) + 1
    /\ queue # <<>> /\ ~speaking_event

\* ------------------------------------------------------------------ the scheduler with a running clock
\* The scheduler on Linux with a pyttsx3 engine, time passing between the
\* steps, so that _speak_chunk calls made by the worker reach the
\* reinitialization of the engine.
InitClock ==
    /\ Init
    /\ engine = "real"
    /\ platform = "linux"

\* The SpeakManager is constructed when the module is imported (line 452):
\* time passes before the first call of speak() or stop(), here more than
\* the restart cooldown.
IdleTick ==
    /\ NothingCalledYet
    /\ now = 0
    /\ now' = RESTART_COOLDOWN_SECONDS + 1
    /\ UNCHANGED <<env_vars, voice_vars, tts_vars, mgr_vars, w_vars, s_pc, hist_vars, ct_vars>>

NextClock == Next \/ IdleTick

SpecClock == InitClock /\ [][NextClock]_vars

\* The worker is inside its with self.lock block (lines 406-430).
InWithBlock == w_pc \in {"set_voice", "for", "call", "in_chunk", "end_with"}

\* A stop() passes its with self.lock block: engine.stop() is called.
StopEngineStep ==
    \E t \in Stoppers : s_pc[t] = "acquire" /\ s_pc'[t] # "acquire"

\* C29: the engine handle is used only under the lock.  The worker holds the
\* lock throughout its with block, in which it sets the voice, speaks the
\* chunks and, inside _speak_chunk, replaces the engine; the engine handle
\* changes in no other step; and engine.stop() of a stop() is called only
\* while the worker is outside that block, never during a _speak_chunk call
\* or a reinitialization.
EngineUnderLock ==
    /\ [](InWithBlock => lock = "worker")
    /\ [](active_chunks >= 1 => (lock = "worker" /\ w_pc = "in_chunk"))
    /\ [][(engine' # engine \/ engine_inits' # engine_inits) =>
            (lock = "worker" /\ w_pc = "in_chunk" /\ UNCHANGED s_pc)]_vars
    /\ [][StopEngineStep =>
            (lock = "free" /\ active_chunks = 0 /\ ~InWithBlock /\ UNCHANGED engine)]_vars

\* The first chunk made the worker replace the engine while a stop() was
\* waiting for the lock; the worker still holds it.
ReinitWhileStopWaits ==
    /\ engine_inits = 2 /\ lock = "worker"
    /\ w_pc = "for" /\ w_idx = 2
    /\ \E t \in Stoppers : s_pc[t] = "acquire"

\* The properties a set_voice_by_mood call sets for the mood m.
ProfileOf(m) ==
    LET settings == IF m \in Moods THEN EmotionVoices(platform)[m]
                    ELSE EmotionVoices(platform)["neutral"]
    IN  << <<"rate", settings.rate>>, <<"volume", settings.volume>> >>

EngineHandles == {"real", "dummy"}

\* C31 (as the code has it): exactly one engine handle at all times.
\* self.engine is never None after construction, and it changes only in a
\* call of _init_engine.  A reinitialization whose _init_engine returns has
\* replaced the handle: by a new pyttsx3 engine when the creation succeeded,
\* by the console-printing dummy engine when it failed with ImportError,
\* RuntimeError or ValueError.  When the creation fails with any other
\* exception, _init_engine raises and the handle stays a pyttsx3 engine.
OneEngineHandle ==
    /\ [](engine \in EngineHandles)
    /\ [][engine' # engine => engine_inits' > engine_inits]_vars
    /\ [][engine_inits' > engine_inits =>
            /\ sc_last'.init = "ok" => engine' = "real"
            /\ sc_last'.init = "caught" => engine' = "dummy"
            /\ sc_last'.init = "other" => (engine' = engine /\ engine = "real")]_vars

\* C31 (as stated): self.engine is never None, and every reinitialization
\* replaces the old handle by a new one: the dummy engine when the creation
\* failed with ImportError, RuntimeError or ValueError, a new pyttsx3 engine
\* otherwise.
EveryReinitReplacesHandle ==
    /\ [](engine \in EngineHandles)
    /\ [][engine_inits' > engine_inits =>
            /\ sc_last'.init \in {"ok", "caught"}
            /\ engine' = (IF sc_last'.init = "caught" THEN "dummy" ELSE "real")]_vars

\* A reinitialization failed with a caught exception: the dummy engine took
\* the place of the pyttsx3 engine and printed the chunk.
DummyInstalledByReinit ==
    /\ sc_last.init = "caught" /\ engine = "dummy"
    /\ sc_last.out = "dummy" /\ engine_inits = 2

\* The worker begins a request: lines 406-414.
WorkerBeginStep == w_pc = "acquire" /\ w_pc' # "acquire"

\* C32: the engine is not reinitialized per request.  When the worker takes
\* a request and begins it, _init_engine is not called and the engine handle
\* stays; engine.stop() is called before speaking only when engine.isBusy()
\* reported busy; and _init_engine is called only inside a _speak_chunk call
\* that had tried the current engine for its chunk before.
NoReinitPerRequest ==
    /\ [](w_engine.stopped => (w_engine.busy /\ engine = "real"))
    /\ [][WorkerBeginStep =>
            /\ UNCHANGED <<engine, engine_inits>>
            /\ w_engine'.stopped = w_engine'.busy]_vars
    /\ [][engine_inits' > engine_inits =>
            /\ w_pc = "in_chunk" /\ lock = "worker"
            /\ w_engine'.engine_tried]_vars

\* The engine was replaced while the first request was spoken; the worker
\* has begun the second one, found the engine busy and stopped it, and the
\* engine is still the one of the first request.
BusyEngineStoppedNotReplaced ==
    /\ w_pc = "set_voice" /\ w_req.id = 2
    /\ w_engine.busy /\ w_engine.stopped
    /\ engine_inits = 2 /\ speech_count = 1

\* C33: the voice volume stays in range: for every mood, and for every
\* configured default volume between 0.0 and 1.0, the volume a
\* set_voice_by_mood call passes to the engine (the default plus the mood's
\* offset) lies between 0.0 and 1.0.
VolumeInRange ==
    \A i \in 1..Len(sv_last.props) :
        sv_last.props[i][1] = "volume" => sv_last.props[i][2] \in VolumeRange

\* C34: after a stop() has returned, isSpeaking() is False in every later
\* state: the worker does not set the speaking flag again, also when it had
\* taken a request and passed the exit test of line 401 before stop() set
\* exit_requested.
NotSpeakingAfterStop ==
    (\E t \in Stoppers : s_pc[t] = "done") => ~speaking_event

\* C35: isSpeaking() covers pending speech.  While stop() has not been
\* called, from the return of a speak() with a non-empty text until the
\* request has been processed to its end, the speaking flag is set: as long
\* as such a request waits in the queue or is in the worker's hands, a caller
\* that polls the flag finds it set.
SpeakingCoversPending ==
    ~exit_requested =>
        /\ (\E i \in 1..Len(queue) : ~IsEmptyInput(queue[i])) => speaking_event
        /\ ((w_pc = "check_exit" \/ Processing) /\ ~IsEmptyInput(w_req)) => speaking_event

\* ------------------------------------------------------------------ progress without stop()
\* speak() is called and the worker runs; stop() is never called.
NextProgress ==
    \/ \E input \in SpeakInputs : Speak(input)
    \/ Worker

SpecProgress == Init /\ [][NextProgress]_vars /\ WF_vars(Worker)

\* The worker is through with the k-th request: it has gone back to its loop
\* after it, or has taken a later one.
RequestDone(k) ==
    \/ w_req.id > k
    \/ w_req.id = k /\ w_pc \in {"loop", "get"}

\* C36: progress.  As long as stop() is never called and every backend call
\* returns or raises, every request enqueued by speak() is eventually taken
\* from the queue and processed to its end, the speaking flag is cleared
\* again whenever it was set, the worker thread never ends, and it comes
\* back to its queue.get again and again.
WorkerProgress ==
    /\ \A k \in 1..MaxRequests : (n_requests >= k) ~> RequestDone(k)
    /\ speaking_event ~> ~speaking_event
    /\ [](w_pc \notin {"exited", "dead"})
    /\ []<>(w_pc = "get")

\* The third request has been processed to its end although an earlier one
\* had failed with an exception that only the outer except clause caught.
ThirdDoneAfterFailure ==
    /\ w_req.id = 3 /\ w_pc = "loop" /\ ~speaking_event
    /\ queue = <<>> /\ unfinished_tasks >= 1 /\ speech_count >= 1

\* ------------------------------------------------------------------ stop() running to its end
\* A thread that has called stop() is scheduled until the call returns; the
\* worker thread is scheduled as well.  Nobody is obliged to call stop().
\* Checked on Linux with a pyttsx3 engine, whose calls can raise in the
\* worker and in stop().
StopRun(t) == StopDrain(t) \/ StopEngineStop(t) \/ StopClear(t)

SpecStop ==
    /\ InitClock /\ [][Next]_vars
    /\ WF_vars(Worker)
    /\ \A t \in Stoppers : WF_vars(StopRun(t))

\* C37: stop() cannot deadlock with the worker.  Provided every engine call
\* returns or raises, every stop() that was called returns.  The worker never
\* waits for a stop(): the lock is taken only by the worker, so it is free
\* whenever the worker comes to its with block.  A stop() waits at line 118
\* only while the worker is inside its with block, where the worker can take
\* its next step; once exit_requested is set the worker starts at most one
\* more chunk before it leaves the block (line 422).
StopReturns ==
    /\ \A t \in Stoppers : (s_pc[t] # "idle") ~> (s_pc[t] = "done")
    /\ [](w_pc = "acquire" => (lock = "free" /\ ENABLED WorkerBegin))
    /\ []((lock # "free" /\ \E t \in Stoppers : s_pc[t] = "acquire") =>
            (InWithBlock /\ ENABLED Worker /\ late_chunks <= 1))

\* Both stop() calls have returned after the worker left its with block;
\* the worker had begun its first chunk after exit_requested was set and
\* has left the chunk loop before the second.
StopsReturnedAfterWithBlock ==
    /\ \A t \in Stoppers : s_pc[t] = "done"
    /\ w_pc = "finally" /\ lock = "free"
    /\ late_chunks = 1 /\ w_idx = 2 /\ Len(w_chunks) = 2

\* The tiers through which a call emitted its chunk.
Emitted(call) == IF call.out = "none" THEN {} ELSE {call.out}

\* C38: exactly one output per chunk.  Every _speak_chunk call ends with the
\* chunk emitted through exactly one tier, the last one it tried: an audio
\* backend that succeeded, or the console print when none did.  No chunk is
\* emitted twice and none is dropped without any output.
ExactlyOneOutput ==
    sc_last.ret # "none" =>
        /\ Cardinality(Emitted(sc_last)) = 1
        /\ EndsAtSuccess(sc_last)
        /\ sc_last.out = "console" =>
              \A i \in 1..(Len(sc_last.tiers) - 1) : sc_last.tiers[i] # "console"

\* The backends that speak: Windows SAPI, the pyttsx3 engine, the external
\* command.
AudioBackends == {"sapi", "engine", "system"}

\* C39: the consecutive-failure counter is bounded.  Between any two
\* _speak_chunk calls tts_attempt_count is between 0 and 3; it is 0 after
\* every call in which an audio backend succeeded and after every call that
\* went straight to the fallback; and inside a call it never exceeds 4.
CounterBounded ==
    /\ tts_attempt_count \in 0..3
    /\ sc_last.ret # "none" =>
          /\ sc_last.peak \in 1..4
          /\ sc_last.out \in AudioBackends => tts_attempt_count = 0
          /\ SkipsPrimary(sc_last.tiers) => (sc_last.peak = 4 /\ tts_attempt_count = 0)

\* The fourth failing call in a row went straight to the fallback with the
\* counter at 4, found no external command, printed the chunk and left the
\* counter at 0.
FourthCallResetsCounter ==
    /\ sc_last.peak = 4 /\ sc_last.tiers = <<"system", "console">>
    /\ tts_attempt_count = 0 /\ fail_streak = 3

====
